---- MODULE Spec2Model ----
(***************************************************************************)
(* Model of the manufacturing quality analysis pipeline: the DataValidator *)
(* (src/validation.py), the KPI aggregations (src/kpi.py) and the quantile *)
(* categorisation of the preprocessing module (src/preprocess.py), over    *)
(* the schema of src/config.py.                                            *)
(*                                                                         *)
(* A dataset is a record [cols, rows]: cols is the set of column names of  *)
(* the DataFrame, rows the sequence of its rows.  Row i of the sequence    *)
(* carries the pandas index label i-1 (the RangeIndex read_csv produces).  *)
(* A row is [val, nulls]: val gives the cell of every value column, nulls  *)
(* is the set of columns whose cell is NaN in that row.  Real numbers are  *)
(* exact fractions [num, den]; den = 0 stands for NaN, and comparisons     *)
(* with NaN are false as in IEEE arithmetic.                               *)
(***************************************************************************)
EXTENDS Integers, Sequences, FiniteSets, TLC

VARIABLES df, results, ret, calls

vars == <<df, results, ret, calls>>

(***************************************************************************)
(* Bounds of the explored inputs.                                          *)
(***************************************************************************)
MaxRows == 2
MaxMissing == 2
MaxRowsKpi == 3
MaxVal == 2

MaxLabel == 32

(***************************************************************************)
(* src/config.py                                                           *)
(***************************************************************************)
REQUIRED_COLUMNS ==
    << "UDI", "Product ID", "Type", "Air temperature [K]",
       "Process temperature [K]", "Rotational speed [rpm]", "Torque [Nm]",
       "Tool wear [min]", "Machine failure", "TWF", "HDF", "PWF", "OSF",
       "RNF" >>

FAILURE_MODE_COLS == << "TWF", "HDF", "PWF", "OSF", "RNF" >>

TARGET_COL == "Machine failure"

VALID_TYPES == {"L", "M", "H"}

VALIDATION_RULES ==
    << [col |-> "Torque [Nm]", has_min |-> TRUE, min |-> 0,
        has_max |-> FALSE, max |-> 0, strict_positive |-> FALSE],
       [col |-> "Tool wear [min]", has_min |-> TRUE, min |-> 0,
        has_max |-> FALSE, max |-> 0, strict_positive |-> FALSE],
       [col |-> "Rotational speed [rpm]", has_min |-> TRUE, min |-> 0,
        has_max |-> FALSE, max |-> 0, strict_positive |-> TRUE],
       [col |-> "Air temperature [K]", has_min |-> TRUE, min |-> 0,
        has_max |-> FALSE, max |-> 0, strict_positive |-> TRUE],
       [col |-> "Process temperature [K]", has_min |-> TRUE, min |-> 0,
        has_max |-> FALSE, max |-> 0, strict_positive |-> TRUE] >>

(***************************************************************************)
(* Sequences, sets and exact fractions.                                    *)
(***************************************************************************)
Range(s) == {s[i] : i \in 1..Len(s)}

Min2(a, b) == IF a <= b THEN a ELSE b

SetMin(S) == CHOOSE x \in S : \A y \in S : x <= y

SetMax(S) == CHOOSE x \in S : \A y \in S : y <= x

RECURSIVE SortedSeq(_)
SortedSeq(S) ==
    IF S = {} THEN <<>> ELSE <<SetMin(S)>> \o SortedSeq(S \ {SetMin(S)})

Frac(n, d) == [num |-> n, den |-> d]

NaN == Frac(0, 0)

IsNaN(x) == x.den = 0

FracLe(a, b) == ~IsNaN(a) /\ ~IsNaN(b) /\ a.num * b.den <= b.num * a.den

FracGe(a, b) == ~IsNaN(a) /\ ~IsNaN(b) /\ a.num * b.den >= b.num * a.den

FracEq(a, b) == ~IsNaN(a) /\ ~IsNaN(b) /\ a.num * b.den = b.num * a.den

(***************************************************************************)
(* The DataFrame.                                                          *)
(***************************************************************************)
NumericCols == {VALIDATION_RULES[i].col : i \in 1..Len(VALIDATION_RULES)}

FlagCols == {TARGET_COL} \cup Range(FAILURE_MODE_COLS)

ValueCols == {"Type"} \cup NumericCols \cup FlagCols

AllColumns == Range(REQUIRED_COLUMNS) \cup {"Extra"}

RowIds(d) == 1..Len(d.rows)

IsNull(d, i, c) == c \in d.rows[i].nulls

Cell(d, i, c) == d.rows[i].val[c]

\* pandas index label of the i-th row
Label(i) == i - 1

\* Series.min() / Series.max(): NaN cells are skipped, NaN when nothing is left
SeriesMin(d, c) ==
    LET vs == {Cell(d, i, c) : i \in {j \in RowIds(d) : ~IsNull(d, j, c)}}
    IN  IF vs = {} THEN NaN ELSE Frac(SetMin(vs), 1)

SeriesMax(d, c) ==
    LET vs == {Cell(d, i, c) : i \in {j \in RowIds(d) : ~IsNull(d, j, c)}}
    IN  IF vs = {} THEN NaN ELSE Frac(SetMax(vs), 1)

\* Series.sum(): NaN cells are skipped
RECURSIVE SumRows(_, _, _)
SumRows(d, c, n) ==
    IF n = 0 THEN 0
    ELSE SumRows(d, c, n - 1) + (IF IsNull(d, n, c) THEN 0 ELSE Cell(d, n, c))

SeriesSum(d, c) == SumRows(d, c, Len(d.rows))

\* set(Series.unique()) of an integer column: the values and whether NaN occurs
UniqueVals(d, c) ==
    [values  |-> {Cell(d, i, c) : i \in {j \in RowIds(d) : ~IsNull(d, j, c)}},
     has_nan |-> \E i \in RowIds(d) : IsNull(d, i, c)]

(***************************************************************************)
(* src/validation.py: DataValidator.  A ValidationResult is a record       *)
(* [check_name, status, message, details]; the formatted message is kept   *)
(* as its fixed text and the values formatted into it.                     *)
(***************************************************************************)
ValidationResult(name, status, message, details) ==
    [check_name |-> name, status |-> status, message |-> message,
     details |-> details]

\* the set difference taken the wrong way round
check_required_columns_swapped(d) ==
    LET actual_cols == d.cols
        required    == Range(REQUIRED_COLUMNS)
        missing     == actual_cols \ required
    IN  IF missing # {}
        THEN ValidationResult("Required Columns", "FAIL",
                 [text |-> "Missing required column(s).",
                  n    |-> Cardinality(missing)],
                 [missing_columns |-> missing])
        ELSE ValidationResult("Required Columns", "PASS",
                 [text |-> "All required columns present.",
                  n    |-> Len(REQUIRED_COLUMNS)],
                 [column_count |-> Len(REQUIRED_COLUMNS)])

check_required_columns(d) ==
    LET actual_cols == d.cols
        required    == Range(REQUIRED_COLUMNS)
        missing     == required \ actual_cols
    IN  IF missing # {}
        THEN ValidationResult("Required Columns", "FAIL",
                 [text |-> "Missing required column(s).",
                  n    |-> Cardinality(missing)],
                 [missing_columns |-> missing])
        ELSE ValidationResult("Required Columns", "PASS",
                 [text |-> "All required columns present.",
                  n    |-> Len(REQUIRED_COLUMNS)],
                 [column_count |-> Len(REQUIRED_COLUMNS)])

\* set(df["Type"].unique()); a NaN cell is the value "NaN"
TypeUnique(d) ==
    {IF IsNull(d, i, "Type") THEN "NaN" ELSE Cell(d, i, "Type") :
        i \in RowIds(d)}

\* the set difference taken the wrong way round
check_type_domain_swapped(d) ==
    IF "Type" \notin d.cols
    THEN ValidationResult("Type Domain", "FAIL",
             [text |-> "'Type' column not found."], [none |-> {}])
    ELSE LET actual_types == TypeUnique(d)
             invalid      == VALID_TYPES \ actual_types
         IN  IF invalid # {}
             THEN ValidationResult("Type Domain", "FAIL",
                      [text |-> "Invalid Type values found", values |-> invalid],
                      [invalid_values |-> invalid, valid_values |-> VALID_TYPES])
             ELSE ValidationResult("Type Domain", "PASS",
                      [text |-> "All Type values are valid",
                       values |-> actual_types],
                      [found_types |-> actual_types])

check_type_domain(d) ==
    IF "Type" \notin d.cols
    THEN ValidationResult("Type Domain", "FAIL",
             [text |-> "'Type' column not found."], [none |-> {}])
    ELSE LET actual_types == TypeUnique(d)
             invalid      == actual_types \ VALID_TYPES
         IN  IF invalid # {}
             THEN ValidationResult("Type Domain", "FAIL",
                      [text |-> "Invalid Type values found", values |-> invalid],
                      [invalid_values |-> invalid, valid_values |-> VALID_TYPES])
             ELSE ValidationResult("Type Domain", "PASS",
                      [text |-> "All Type values are valid",
                       values |-> actual_types],
                      [found_types |-> actual_types])

\* (series <= min_val).sum(), (series < min_val).sum(), (series > max_val).sum():
\* a comparison with a NaN cell is False
CountLe(d, c, b) ==
    Cardinality({i \in RowIds(d) : ~IsNull(d, i, c) /\ Cell(d, i, c) <= b})

CountLt(d, c, b) ==
    Cardinality({i \in RowIds(d) : ~IsNull(d, i, c) /\ Cell(d, i, c) < b})

CountGt(d, c, b) ==
    Cardinality({i \in RowIds(d) : ~IsNull(d, i, c) /\ Cell(d, i, c) > b})

\* strict_positive ignored: the minimum is always inclusive
MinViolations_inclusive(d, rules) ==
    IF ~rules.has_min THEN <<>>
    ELSE LET bad_count == CountLt(d, rules.col, rules.min)
         IN  IF bad_count > 0
             THEN <<[count |-> bad_count, op |-> "<", bound |-> rules.min]>>
             ELSE <<>>

\* the violations list built for one configured column
MinViolations(d, rules) ==
    IF ~rules.has_min THEN <<>>
    ELSE IF rules.strict_positive
         THEN LET bad_count == CountLe(d, rules.col, rules.min)
              IN  IF bad_count > 0
                  THEN <<[count |-> bad_count, op |-> "<=", bound |-> rules.min]>>
                  ELSE <<>>
         ELSE LET bad_count == CountLt(d, rules.col, rules.min)
              IN  IF bad_count > 0
                  THEN <<[count |-> bad_count, op |-> "<", bound |-> rules.min]>>
                  ELSE <<>>

MaxViolations(d, rules) ==
    IF ~rules.has_max THEN <<>>
    ELSE LET bad_count == CountGt(d, rules.col, rules.max)
         IN  IF bad_count > 0
             THEN <<[count |-> bad_count, op |-> ">", bound |-> rules.max]>>
             ELSE <<>>

\* a missing column fails its range check
range_check_missing_fail(col) ==
    ValidationResult("Range Check: " \o col, "FAIL",
        [text |-> "Column not found, skipping range check."], [none |-> {}])

\* the result for a configured column the dataset does not have
range_check_missing(col) ==
    ValidationResult("Range Check: " \o col, "WARN",
        [text |-> "Column not found, skipping range check."], [none |-> {}])

\* one iteration of the loop of check_numeric_ranges
range_check(d, rules) ==
    LET col == rules.col
    IN  IF col \notin d.cols
        THEN range_check_missing(col)
        ELSE LET violations == MinViolations(d, rules) \o MaxViolations(d, rules)
             IN  IF violations # <<>>
                 THEN ValidationResult("Range Check: " \o col, "FAIL",
                          [text |-> "violations", violations |-> violations],
                          [min |-> SeriesMin(d, col), max |-> SeriesMax(d, col)])
                 ELSE ValidationResult("Range Check: " \o col, "PASS",
                          [text |-> "All values within valid range.",
                           min |-> SeriesMin(d, col), max |-> SeriesMax(d, col)],
                          [min |-> SeriesMin(d, col), max |-> SeriesMax(d, col)])

\* the list check_numeric_ranges returns, in the order of VALIDATION_RULES
check_numeric_ranges(d) ==
    [k \in 1..Len(VALIDATION_RULES) |-> range_check(d, VALIDATION_RULES[k])]

\* a column counts as binary only when both 0 and 1 occur
NotBinary_both(u) == u.has_nan \/ u.values # {0, 1}

\* not unique_vals.issubset({0, 1})
NotBinary(u) == u.has_nan \/ ~(u.values \subseteq {0, 1})

check_binary_flags(d) ==
    LET all_flag_cols == <<TARGET_COL>> \o FAILURE_MODE_COLS
        offending == {c \in Range(all_flag_cols) :
                         c \in d.cols /\ NotBinary(UniqueVals(d, c))}
        non_binary == [c \in offending |-> UniqueVals(d, c)]
    IN  IF offending # {}
        THEN ValidationResult("Binary Flags", "FAIL",
                 [text |-> "column(s) have non-binary values.",
                  n |-> Cardinality(offending)],
                 [non_binary_columns |-> non_binary])
        ELSE ValidationResult("Binary Flags", "PASS",
                 [text |-> "All flag columns are binary (0/1).",
                  n |-> Len(all_flag_cols)],
                 [columns_checked |-> all_flag_cols])

SAMPLE_LIMIT == 10

\* the labels of the rows of violations for one failure mode: the rows with
\* Machine failure == 0 and that mode == 1
ModeViolations(d, col) ==
    {Label(i) : i \in {j \in RowIds(d) :
        /\ ~IsNull(d, j, TARGET_COL) /\ Cell(d, j, TARGET_COL) = 0
        /\ ~IsNull(d, j, col) /\ Cell(d, j, col) = 1}}

\* inconsistent_rows after the loop has handled the first k failure modes
RECURSIVE ViolationList(_, _)
ViolationList(d, k) ==
    IF k = 0 THEN <<>>
    ELSE LET col == FAILURE_MODE_COLS[k]
         IN  IF col \in d.cols
             THEN ViolationList(d, k - 1) \o SortedSeq(ModeViolations(d, col))
             ELSE ViolationList(d, k - 1)

\* the list is not deduplicated
InconsistentRows_nodedup(d) == ViolationList(d, Len(FAILURE_MODE_COLS))

\* A CPython set of non-negative integers, each its own hash: an open
\* addressing table over the slots 0..mask, -1 in an unused slot.
EmptyTable(size) == [s \in 0..(size - 1) |-> -1]

TableMask(table) == Cardinality(DOMAIN table) - 1

\* the slot where the key is, or where it is to be placed: slot i and, when
\* they fit below the mask, the nine slots after it, then the perturbed jump
RECURSIVE SetLookup(_, _, _, _)
SetLookup(table, key, i, perturb) ==
    LET mask   == TableMask(table)
        probes == IF i + 9 <= mask THEN 9 ELSE 0
        hits   == {s \in i..(i + probes) : table[s] = -1 \/ table[s] = key}
    IN  IF hits # {} THEN SetMin(hits)
        ELSE SetLookup(table, key,
                 (i * 5 + 1 + (perturb \div 32)) % (mask + 1), perturb \div 32)

\* the keys of the table in slot order, which is the iteration order
SetList(table) ==
    LET used == {s \in DOMAIN table : table[s] # -1}
    IN  [k \in 1..Cardinality(used) |->
            table[CHOOSE s \in used : Cardinality({u \in used : u < s}) = k - 1]]

RECURSIVE TableSize(_, _)
TableSize(size, minused) ==
    IF size > minused THEN size ELSE TableSize(2 * size, minused)

RECURSIVE InsertClean(_, _)
InsertClean(table, keys) ==
    IF keys = <<>> THEN table
    ELSE LET key  == Head(keys)
             slot == SetLookup(table, key, key % (TableMask(table) + 1), key)
         IN  InsertClean([table EXCEPT ![slot] = key], Tail(keys))

\* the table is rebuilt with more than four times the keys it holds, and
\* with more than twice the keys once it holds more than 50000 of them
SetResize(table) ==
    LET used    == Len(SetList(table))
        minused == IF used > 50000 THEN 2 * used ELSE 4 * used
    IN  InsertClean(EmptyTable(TableSize(8, minused)), SetList(table))

\* set.add: a key already present is left alone; the table grows once three
\* fifths of the mask are filled
SetAdd(table, key) ==
    LET slot  == SetLookup(table, key, key % (TableMask(table) + 1), key)
        added == [table EXCEPT ![slot] = key]
    IN  IF table[slot] = key THEN table
        ELSE IF Len(SetList(added)) * 5 < TableMask(table) * 3 THEN added
             ELSE SetResize(added)

\* set(keys): the keys are added in the order of the list
RECURSIVE SetOfPrefix(_, _)
SetOfPrefix(keys, n) ==
    IF n = 0 THEN EmptyTable(8)
    ELSE SetAdd(SetOfPrefix(keys, n - 1), keys[n])

\* list(set(inconsistent_rows))
InconsistentRows(d) ==
    LET inconsistent_rows == ViolationList(d, Len(FAILURE_MODE_COLS))
    IN  SetList(SetOfPrefix(inconsistent_rows, Len(inconsistent_rows)))

check_failure_consistency(d) ==
    IF TARGET_COL \notin d.cols
    THEN ValidationResult("Failure Consistency", "WARN",
             [text |-> "target column not found."], [none |-> {}])
    ELSE LET inconsistent_rows == InconsistentRows(d)
             n_violations == Len(inconsistent_rows)
         IN  IF n_violations > 0
             THEN ValidationResult("Failure Consistency", "WARN",
                      [text |-> "row(s) have Machine failure=0 but a failure mode=1.",
                       n |-> n_violations],
                      [violation_count |-> n_violations,
                       sample_indices |->
                           SubSeq(inconsistent_rows, 1,
                                  Min2(SAMPLE_LIMIT, n_violations))])
             ELSE ValidationResult("Failure Consistency", "PASS",
                      [text |-> "All records are consistent."], [none |-> {}])

\* df.isnull().sum() for one column
NullCount(d, c) == Cardinality({i \in RowIds(d) : IsNull(d, i, c)})

check_null_values(d) ==
    LET cols_with_nulls == {c \in d.cols : NullCount(d, c) > 0}
    IN  IF cols_with_nulls # {}
        THEN ValidationResult("Null Values", "WARN",
                 [text |-> "column(s) have null values.",
                  n |-> Cardinality(cols_with_nulls)],
                 [null_counts |-> [c \in cols_with_nulls |-> NullCount(d, c)]])
        ELSE ValidationResult("Null Values", "PASS",
                 [text |-> "No null values found in any column."],
                 [total_rows |-> Len(d.rows)])

\* the battery stops at the first failed check
RECURSIVE UpToFirstFail(_)
UpToFirstFail(rs) ==
    IF rs = <<>> THEN <<>>
    ELSE IF Head(rs).status = "FAIL" THEN <<Head(rs)>>
         ELSE <<Head(rs)>> \o UpToFirstFail(Tail(rs))

run_all_checks_abort(d) ==
    UpToFirstFail(<<check_required_columns(d), check_type_domain(d)>>
                  \o check_numeric_ranges(d)
                  \o <<check_binary_flags(d), check_failure_consistency(d),
                        check_null_values(d)>>)

\* the list is not reset first
run_all_checks_noreset(d) ==
    LET r0 == results
        r1 == Append(r0, check_required_columns(d))
        r2 == Append(r1, check_type_domain(d))
        r3 == r2 \o check_numeric_ranges(d)
        r4 == Append(r3, check_binary_flags(d))
        r5 == Append(r4, check_failure_consistency(d))
        r6 == Append(r5, check_null_values(d))
    IN  r6

\* the result list run_all_checks leaves in self.results
run_all_checks(d) ==
    LET r0 == <<>>
        r1 == Append(r0, check_required_columns(d))
        r2 == Append(r1, check_type_domain(d))
        r3 == r2 \o check_numeric_ranges(d)
        r4 == Append(r3, check_binary_flags(d))
        r5 == Append(r4, check_failure_consistency(d))
        r6 == Append(r5, check_null_values(d))
    IN  r6

(***************************************************************************)
(* The datasets explored: rows that differ from a nominal, valid row in    *)
(* one respect (a Type value, one numeric cell, the flags, one NaN cell),  *)
(* and column sets that lack up to MaxMissing of the columns.              *)
(***************************************************************************)
NominalRow ==
    [val   |-> [c \in ValueCols |->
                   IF c = "Type" THEN "L"
                   ELSE IF c \in NumericCols THEN 1 ELSE 0],
     nulls |-> {}]

WithVal(r, c, v) == [r EXCEPT !.val[c] = v]

WithNull(r, c) == [r EXCEPT !.nulls = @ \cup {c}]

\* a row with the given target and exactly the failure modes of S set
FlagRow(t, S) ==
    [NominalRow EXCEPT !.val = [c \in ValueCols |->
        IF c = TARGET_COL THEN t
        ELSE IF c \in S THEN 1 ELSE NominalRow.val[c]]]

ModePatterns == {{}, {"TWF"}, {"TWF", "HDF"}}

NullableCols == {"Type", "Torque [Nm]", "TWF"}

ValidatorRows ==
    {FlagRow(t, S) : t \in {0, 1}, S \in ModePatterns}
    \cup {WithVal(NominalRow, c, 2) : c \in {TARGET_COL, "TWF", "RNF"}}
    \cup {WithVal(NominalRow, "Type", t) : t \in {"M", "H", "X"}}
    \cup {WithVal(NominalRow, c, 0) : c \in NumericCols}
    \cup {WithVal(NominalRow, c, -1) :
              c \in {"Torque [Nm]", "Rotational speed [rpm]"}}
    \cup {WithNull(NominalRow, c) : c \in NullableCols}

FewRows ==
    {FlagRow(0, {"TWF"}), FlagRow(1, {}), WithVal(NominalRow, "RNF", 2)}

SeqsUpTo(S, n) == UNION {[1..k -> S] : k \in 0..n}

ColumnChoices ==
    {AllColumns \ rem :
        rem \in {r \in SUBSET AllColumns : Cardinality(r) <= MaxMissing}}

ValidatorDatasets ==
    {[cols |-> AllColumns, rows |-> rs] : rs \in SeqsUpTo(ValidatorRows, MaxRows)}
    \cup {[cols |-> cs, rows |-> rs] :
            cs \in ColumnChoices, rs \in SeqsUpTo(FewRows, MaxRows)}

(***************************************************************************)
(* The frames an operation assigns to.  "df" is the caller's table: the    *)
(* Validator keeps the reference it is given (self.df = df) and an         *)
(* aggregation works on its argument; neither copies it.  "grouped" is the *)
(* frame compute_failure_rate_by_type gets from agg().reset_index(), a new *)
(* object.                                                                 *)
(***************************************************************************)
\* the three item assignments of compute_failure_rate_by_type, which are
\* reached once the groupby has found the Type and the target column
by_type_assignments(d, frame) ==
    IF "Type" \in d.cols /\ TARGET_COL \in d.cols
    THEN << [frame |-> frame, column |-> "failure_rate"],
            [frame |-> frame, column |-> "failure_rate_pct"],
            [frame |-> frame, column |-> "sort_key"] >>
    ELSE <<>>

\* the columns are assigned on the table the function was given
item_assignments_on_df(fn, d) ==
    IF fn \in {"compute_failure_rate_by_type", "generate_kpi_summary"}
    THEN by_type_assignments(d, "df")
    ELSE <<>>

\* The item assignments a call makes, in order.  generate_kpi_summary makes
\* those of compute_failure_rate_by_type, its second call, which it reaches
\* when the target column exists; the checks, generate_report and the other
\* aggregations only index, compare and reduce the table and assign nothing.
item_assignments(fn, d) ==
    IF fn \in {"compute_failure_rate_by_type", "generate_kpi_summary"}
    THEN by_type_assignments(d, "grouped")
    ELSE <<>>

\* the caller's table after the call: an assignment on "df" adds its column
\* (the columns assigned here are not among the columns of a dataset)
table_after(fn, d) ==
    LET on_df == SelectSeq(item_assignments(fn, d), LAMBDA a : a.frame = "df")
    IN  [d EXCEPT !.cols = @ \cup {on_df[k].column : k \in DOMAIN on_df}]

NoCall == [fn |-> "none"]

Init ==
    /\ df \in ValidatorDatasets
    /\ results = <<>>
    /\ ret = NoCall
    /\ calls = 0

RunAllChecks ==
    /\ results' = run_all_checks(df)
    /\ ret' = [fn |-> "run_all_checks", raised |-> "none", value |-> results']
    /\ df' = table_after("run_all_checks", df)

Next == RunAllChecks /\ UNCHANGED calls

Spec == Init /\ [][Next]_vars

(***************************************************************************)
(* Properties of the Validator.                                            *)
(***************************************************************************)
\* the positions of the result list holding the results of the named check
Entries(name) == {i \in DOMAIN results : results[i].check_name = name}

RangeName(c) == "Range Check: " \o c

ModeCols == Range(FAILURE_MODE_COLS)

\* the columns each check reads
Needs(name) ==
    IF name \in {"Binary Flags", "Failure Consistency"} THEN FlagCols
    ELSE IF \E c \in NumericCols : name = RangeName(c)
         THEN {c \in NumericCols : name = RangeName(c)}
         ELSE {}

\* row i has Machine failure = 0 and a present failure mode = 1
Inconsistent(i) ==
    /\ ~IsNull(df, i, TARGET_COL) /\ Cell(df, i, TARGET_COL) = 0
    /\ \E m \in ModeCols \cap df.cols : ~IsNull(df, i, m) /\ Cell(df, i, m) = 1

\* column c holds something other than 0 and 1
HasNonBinary(c) ==
    \E i \in RowIds(df) : IsNull(df, i, c) \/ Cell(df, i, c) \notin {0, 1}

\* C1 as stated: every check other than Required Columns and Type Domain
\* returns WARN whenever one of the columns it needs is missing.
C1_WarnWheneverColumnMissing ==
    \A i \in DOMAIN results :
        (/\ results[i].check_name \notin {"Required Columns", "Type Domain"}
         /\ Needs(results[i].check_name) \ df.cols # {})
        => results[i].status = "WARN"

\* C1 amended: a range sub-check returns WARN when its column is missing and
\* Failure Consistency returns WARN when the target column is missing; Binary
\* Flags never returns WARN, it skips the missing flag columns and passes
\* when the present ones are binary; Failure Consistency with the target
\* present skips the missing failure modes and passes when no present mode
\* is inconsistent.
C1_MissingColumnPolicy ==
    \A i \in DOMAIN results :
        LET r == results[i]
        IN  /\ \A c \in NumericCols \ df.cols :
                   r.check_name = RangeName(c) => r.status = "WARN"
            /\ (r.check_name = "Failure Consistency" /\ TARGET_COL \notin df.cols)
                   => r.status = "WARN"
            /\ r.check_name = "Binary Flags" =>
                   /\ r.status \in {"PASS", "FAIL"}
                   /\ r.status = "PASS" <=>
                          \A c \in FlagCols \cap df.cols : ~HasNonBinary(c)
            /\ (/\ r.check_name = "Failure Consistency"
                /\ TARGET_COL \in df.cols
                /\ ModeCols \ df.cols # {}
                /\ \A j \in RowIds(df) : ~Inconsistent(j))
                   => r.status = "PASS"

\* a flag column is missing and Binary Flags passed; a failure mode is missing
\* and Failure Consistency passed
C1_Witness ==
    /\ \E i \in Entries("Binary Flags") :
           FlagCols \ df.cols # {} /\ results[i].status = "PASS"
    /\ \E i \in Entries("Failure Consistency") :
           /\ TARGET_COL \in df.cols /\ ModeCols \ df.cols # {}
           /\ results[i].status = "PASS"

ExpectedNames ==
    << "Required Columns", "Type Domain", "Range Check: Torque [Nm]",
       "Range Check: Tool wear [min]", "Range Check: Rotational speed [rpm]",
       "Range Check: Air temperature [K]",
       "Range Check: Process temperature [K]", "Binary Flags",
       "Failure Consistency", "Null Values" >>

\* C2: the list run_all_checks returns holds exactly one result per column of
\* VALIDATION_RULES plus five, named in the fixed order, whatever the dataset
\* and whatever the statuses of the earlier checks.
C2_TenResultsInOrder ==
    results # <<>> =>
        /\ Len(results) = Len(VALIDATION_RULES) + 5
        /\ Len(results) = Len(ExpectedNames)
        /\ \A i \in DOMAIN results : results[i].check_name = ExpectedNames[i]

\* the first two checks failed, a range check warned, and the battery is complete
C2_Witness ==
    /\ Len(results) = Len(ExpectedNames)
    /\ results[1].status = "FAIL"
    /\ results[2].status = "FAIL"
    /\ \E i \in 3..7 : results[i].status = "WARN"
    /\ results[Len(results)].check_name = "Null Values"

AbsentRequired == Range(REQUIRED_COLUMNS) \ df.cols

\* C6: Required Columns fails exactly when a name of REQUIRED_COLUMNS is absent,
\* then lists exactly the absent names and counts them; the status is the
\* same for the dataset with or without a non-required column.
C6_RequiredColumns ==
    \A i \in Entries("Required Columns") :
        LET r == results[i]
        IN  /\ r.status = "FAIL" <=> AbsentRequired # {}
            /\ r.status \in {"PASS", "FAIL"}
            /\ r.status = "FAIL" =>
                   /\ r.details.missing_columns = AbsentRequired
                   /\ r.message.n = Cardinality(AbsentRequired)
            /\ \A x \in AllColumns \ Range(REQUIRED_COLUMNS) :
                   /\ check_required_columns(
                          [df EXCEPT !.cols = @ \cup {x}]).status = r.status
                   /\ check_required_columns(
                          [df EXCEPT !.cols = @ \ {x}]).status = r.status

\* two required columns were removed, the non-required one is present, and
\* the check failed listing two names
C6_Witness ==
    \E i \in Entries("Required Columns") :
        /\ Cardinality(AbsentRequired) = 2
        /\ "Extra" \in df.cols
        /\ results[i].status = "FAIL"
        /\ Cardinality(results[i].details.missing_columns) = 2

\* value v of a cell violates the rule
Violates(v, rules) ==
    \/ rules.has_min /\ rules.strict_positive /\ v <= rules.min
    \/ rules.has_min /\ ~rules.strict_positive /\ v < rules.min
    \/ rules.has_max /\ v > rules.max

ColumnViolates(rules) ==
    \E i \in RowIds(df) :
        ~IsNull(df, i, rules.col) /\ Violates(Cell(df, i, rules.col), rules)

\* C7: the Range Check of a present configured column fails exactly when a
\* value violates its rule (v <= min when strict_positive, v < min otherwise,
\* v > max), and passes otherwise.
C7_RangeCheckFailsIffViolation ==
    \A k \in 1..Len(VALIDATION_RULES) :
        LET rules == VALIDATION_RULES[k]
        IN  \A i \in Entries(RangeName(rules.col)) :
                rules.col \in df.cols =>
                    /\ results[i].status = "FAIL" <=> ColumnViolates(rules)
                    /\ results[i].status = "PASS" <=> ~ColumnViolates(rules)

\* one row has Torque 0, one row has Rotational speed 0: the first check
\* passed and the second failed
C7_Witness ==
    /\ \E i \in RowIds(df) : Cell(df, i, "Torque [Nm]") = 0
    /\ \E i \in RowIds(df) : Cell(df, i, "Rotational speed [rpm]") = 0
    /\ \E i \in Entries(RangeName("Torque [Nm]")) : results[i].status = "PASS"
    /\ \E i \in Entries(RangeName("Rotational speed [rpm]")) :
           results[i].status = "FAIL"

\* C8: Binary Flags fails exactly when a present flag column holds something
\* outside {0,1}, and the keys of non_binary_columns are those columns; a
\* column holding only 0, only 1 or both is never named.
C8_BinaryFlags ==
    \A i \in Entries("Binary Flags") :
        LET r == results[i]
            offending == {c \in FlagCols \cap df.cols : HasNonBinary(c)}
        IN  /\ r.status = "FAIL" <=> offending # {}
            /\ r.status = "FAIL" =>
                   DOMAIN r.details.non_binary_columns = offending

\* the check failed naming one column while another present flag column
\* holds both 0 and 1 and a third only 0
C8_Witness ==
    \E i \in Entries("Binary Flags") :
        LET named == DOMAIN results[i].details.non_binary_columns
        IN  /\ results[i].status = "FAIL"
            /\ Cardinality(named) = 1
            /\ \E c \in (FlagCols \cap df.cols) \ named :
                   {Cell(df, j, c) : j \in RowIds(df)} = {0, 1}
            /\ \E c \in (FlagCols \cap df.cols) \ named :
                   {Cell(df, j, c) : j \in RowIds(df)} = {0}

\* C9: Failure Consistency never fails; with the target present it warns
\* exactly when a row has Machine failure = 0 and a present failure mode = 1,
\* violation_count is the number of distinct such rows, and it passes otherwise.
C9_FailureConsistency ==
    \A i \in Entries("Failure Consistency") :
        LET r == results[i]
            bad == {j \in RowIds(df) : Inconsistent(j)}
        IN  /\ r.status # "FAIL"
            /\ TARGET_COL \in df.cols =>
                   /\ r.status = "WARN" <=> bad # {}
                   /\ r.status = "PASS" <=> bad = {}
                   /\ r.status = "WARN" =>
                          r.details.violation_count = Cardinality(bad)

\* a row violates through two failure modes and is counted once
C9_Witness ==
    \E i \in Entries("Failure Consistency") :
        /\ results[i].status = "WARN"
        /\ \E j \in RowIds(df) :
               /\ Inconsistent(j)
               /\ Cardinality({m \in ModeCols \cap df.cols :
                                  Cell(df, j, m) = 1}) = 2
        /\ results[i].details.violation_count =
               Cardinality({j \in RowIds(df) : Inconsistent(j)})

(***************************************************************************)
(* src/kpi.py.  A call either returns a value or raises; ret holds the     *)
(* outcome of the last call.  Quantiles are given in tenths.               *)
(***************************************************************************)
QDEN == 10

Q_LOW == 1

Q_HIGH == 9

Returned(fn, value) == [fn |-> fn, raised |-> "none", value |-> value]

Raised(fn, exc) == [fn |-> fn, raised |-> exc]

\* rate * 100
Pct(rate) == Frac(rate.num * 100, rate.den)

ZERO == Frac(0, 1)

\* the division is not guarded against an empty dataset
compute_overall_failure_rate_unguarded(d) ==
    IF TARGET_COL \notin d.cols
    THEN Raised("compute_overall_failure_rate", "KeyError")
    ELSE LET total    == Len(d.rows)
             failures == SeriesSum(d, TARGET_COL)
             rate     == Frac(failures, total)
         IN  Returned("compute_overall_failure_rate",
                 [total_records    |-> total,
                  failure_count    |-> failures,
                  failure_rate     |-> rate,
                  failure_rate_pct |-> Pct(rate)])

compute_overall_failure_rate(d) ==
    IF TARGET_COL \notin d.cols
    THEN Raised("compute_overall_failure_rate", "KeyError")
    ELSE LET total    == Len(d.rows)
             failures == SeriesSum(d, TARGET_COL)
             rate     == IF total > 0 THEN Frac(failures, total) ELSE ZERO
         IN  Returned("compute_overall_failure_rate",
                 [total_records    |-> total,
                  failure_count    |-> failures,
                  failure_rate     |-> rate,
                  failure_rate_pct |-> Pct(rate)])

\* the record appended for one failure mode
mode_record(d, mode) ==
    LET total_failures  == SeriesSum(d, TARGET_COL)
        total_records   == Len(d.rows)
        count           == SeriesSum(d, mode)
        pct_of_failures == IF total_failures > 0
                           THEN Frac(count * 100, total_failures) ELSE ZERO
        pct_of_total    == Frac(count * 100, total_records)
    IN  [failure_mode    |-> mode,
         count           |-> count,
         pct_of_failures |-> pct_of_failures,
         pct_of_total    |-> pct_of_total]

\* the target is read first, then the loop takes the modes in order: each
\* iteration reads its column and then divides count by total_records, two
\* Python ints, so that on a table without rows the first iteration raises
\* before a later column is looked up
compute_failure_mode_counts(d) ==
    IF TARGET_COL \notin d.cols \/ FAILURE_MODE_COLS[1] \notin d.cols
    THEN Raised("compute_failure_mode_counts", "KeyError")
    ELSE IF Len(d.rows) = 0
    THEN Raised("compute_failure_mode_counts", "ZeroDivisionError")
    ELSE IF ~(Range(FAILURE_MODE_COLS) \subseteq d.cols)
    THEN Raised("compute_failure_mode_counts", "KeyError")
    ELSE Returned("compute_failure_mode_counts",
             [k \in 1..Len(FAILURE_MODE_COLS) |->
                 mode_record(d, FAILURE_MODE_COLS[k])])

\* the non-NaN cells of a column, in ascending order
RECURSIVE Insert(_, _)
Insert(x, s) ==
    IF s = <<>> THEN <<x>>
    ELSE IF x <= Head(s) THEN <<x>> \o s
         ELSE <<Head(s)>> \o Insert(x, Tail(s))

RECURSIVE SortedPrefix(_, _, _)
SortedPrefix(d, c, n) ==
    IF n = 0 THEN <<>>
    ELSE IF IsNull(d, n, c) THEN SortedPrefix(d, c, n - 1)
         ELSE Insert(Cell(d, n, c), SortedPrefix(d, c, n - 1))

SortedValues(d, c) == SortedPrefix(d, c, Len(d.rows))

\* Series.quantile(q / QDEN): linear interpolation between the two order
\* statistics around position (n-1)*q/QDEN; NaN when the column has no value
Quantile(d, c, q) ==
    LET a   == SortedValues(d, c)
        n   == Len(a)
        pos == (n - 1) * q
        lo  == (pos \div QDEN) + 1
        fr  == pos % QDEN
        hi  == IF fr = 0 THEN lo ELSE lo + 1
    IN  IF n = 0 THEN NaN
        ELSE Frac(a[lo] * QDEN + (a[hi] - a[lo]) * fr, QDEN)

\* df[column] <= low_threshold and df[column] >= high_threshold, as row sets
LowMask(d, c, low_threshold) ==
    {i \in RowIds(d) :
        ~IsNull(d, i, c) /\ FracLe(Frac(Cell(d, i, c), 1), low_threshold)}

HighMask(d, c, high_threshold) ==
    {i \in RowIds(d) :
        ~IsNull(d, i, c) /\ FracGe(Frac(Cell(d, i, c), 1), high_threshold)}

\* the high mask is forgotten
MidMask_not_low(d, low_mask, high_mask) == RowIds(d) \ low_mask

\* ~low_mask & ~high_mask
MidMask(d, low_mask, high_mask) == (RowIds(d) \ low_mask) \ high_mask

\* subset[TARGET_COL].sum()
RECURSIVE SumOver(_, _, _)
SumOver(d, c, mask) ==
    IF mask = {} THEN 0
    ELSE LET i == SetMin(mask)
         IN  (IF IsNull(d, i, c) THEN 0 ELSE Cell(d, i, c))
             + SumOver(d, c, mask \ {i})

segment_stats(d, mask, label) ==
    LET n        == Cardinality(mask)
        failures == SumOver(d, TARGET_COL, mask)
        rate     == IF n > 0 THEN Frac(failures, n) ELSE ZERO
    IN  [segment          |-> label,
         rows             |-> mask,
         count            |-> n,
         failure_count    |-> failures,
         failure_rate     |-> rate,
         failure_rate_pct |-> Pct(rate)]

compute_quantile_failure_rates(d, column, q_low, q_high) ==
    IF column \notin d.cols \/ TARGET_COL \notin d.cols
    THEN Raised("compute_quantile_failure_rates", "KeyError")
    ELSE LET low_threshold  == Quantile(d, column, q_low)
             high_threshold == Quantile(d, column, q_high)
             low_mask       == LowMask(d, column, low_threshold)
             high_mask      == HighMask(d, column, high_threshold)
             mid_mask       == MidMask(d, low_mask, high_mask)
         IN  Returned("compute_quantile_failure_rates",
                 [column       |-> column,
                  q_low        |-> q_low,
                  q_low_value  |-> low_threshold,
                  q_high       |-> q_high,
                  q_high_value |-> high_threshold,
                  segments     |-> << segment_stats(d, low_mask, "Low"),
                                      segment_stats(d, mid_mask, "Medium"),
                                      segment_stats(d, high_mask, "High") >>])

(***************************************************************************)
(* src/preprocess.py                                                       *)
(***************************************************************************)
\* the two tests in the other order
assign_category_high_first(d, c, i, low_val, high_val) ==
    IF ~IsNull(d, i, c) /\ FracGe(Frac(Cell(d, i, c), 1), high_val) THEN "High"
    ELSE IF ~IsNull(d, i, c) /\ FracLe(Frac(Cell(d, i, c), 1), low_val)
         THEN "Low"
         ELSE "Medium"

\* assign_category(x) for the cell of row i
assign_category(d, c, i, low_val, high_val) ==
    IF ~IsNull(d, i, c) /\ FracLe(Frac(Cell(d, i, c), 1), low_val) THEN "Low"
    ELSE IF ~IsNull(d, i, c) /\ FracGe(Frac(Cell(d, i, c), 1), high_val)
         THEN "High"
         ELSE "Medium"

\* categorize_by_quantiles(df[column], q_low, q_high)
categorize_by_quantiles(d, column, q_low, q_high) ==
    IF column \notin d.cols
    THEN Raised("categorize_by_quantiles", "KeyError")
    ELSE LET low_val  == Quantile(d, column, q_low)
             high_val == Quantile(d, column, q_high)
         IN  Returned("categorize_by_quantiles",
                 [column |-> column, q_low |-> q_low, q_high |-> q_high,
                  labels |-> [i \in RowIds(d) |->
                      assign_category(d, column, i, low_val, high_val)]])

(***************************************************************************)
(* The datasets the aggregations are explored on: every required column    *)
(* present, up to MaxRowsKpi rows that vary either the torque and the      *)
(* target or the target and the failure modes.                             *)
(***************************************************************************)
TorqueRows ==
    {WithVal(FlagRow(t, {}), "Torque [Nm]", v) : t \in {0, 1}, v \in 0..MaxVal}
    \cup {WithNull(NominalRow, "Torque [Nm]")}

FailureRows ==
    {FlagRow(t, S) : t \in {0, 1}, S \in ModePatterns}
    \cup {WithNull(NominalRow, TARGET_COL)}

KpiDatasets ==
    {[cols |-> AllColumns, rows |-> rs] :
        rs \in SeqsUpTo(TorqueRows, MaxRowsKpi)
                  \cup SeqsUpTo(FailureRows, MaxRowsKpi)}

QuantileCols == {"Torque [Nm]", "Tool wear [min]", "Rotational speed [rpm]"}

QuantilePairs == {<<Q_LOW, Q_HIGH>>, <<Q_LOW, 5>>, <<5, Q_HIGH>>}

InitKpi ==
    /\ df \in KpiDatasets
    /\ results = <<>>
    /\ ret = NoCall
    /\ calls = 0

ComputeOverallFailureRate ==
    /\ ret' = compute_overall_failure_rate(df)
    /\ df' = table_after("compute_overall_failure_rate", df)
    /\ UNCHANGED results

ComputeFailureModeCounts ==
    /\ ret' = compute_failure_mode_counts(df)
    /\ df' = table_after("compute_failure_mode_counts", df)
    /\ UNCHANGED results

ComputeQuantileFailureRates ==
    \E column \in QuantileCols, q \in QuantilePairs :
        /\ ret' = compute_quantile_failure_rates(df, column, q[1], q[2])
        /\ df' = table_after("compute_quantile_failure_rates", df)
        /\ UNCHANGED results

CategorizeByQuantiles ==
    \E column \in QuantileCols, q \in QuantilePairs :
        /\ ret' = categorize_by_quantiles(df, column, q[1], q[2])
        /\ UNCHANGED <<df, results>>

NextKpi ==
    \/ ComputeOverallFailureRate /\ UNCHANGED calls
    \/ ComputeFailureModeCounts /\ UNCHANGED calls
    \/ ComputeQuantileFailureRates /\ UNCHANGED calls
    \/ CategorizeByQuantiles /\ UNCHANGED calls

SpecKpi == InitKpi /\ [][NextKpi]_vars

(***************************************************************************)
(* Properties of the aggregations and of the categorisation.               *)
(***************************************************************************)
\* the rows whose target is 1
FailedRows ==
    {i \in RowIds(df) : ~IsNull(df, i, TARGET_COL) /\ Cell(df, i, TARGET_COL) = 1}

\* zero rows or zero failures
Degenerate == Len(df.rows) = 0 \/ FailedRows = {}

IsZero(x) == ~IsNaN(x) /\ x.num = 0

\* C3: on a dataset with zero rows or zero failures each of the three
\* aggregations returns normally, and every rate or percentage whose
\* denominator is 0 is 0.0.
C3_DegenerateReturnsZero ==
    Degenerate =>
        /\ ret.fn = "compute_overall_failure_rate" =>
               /\ ret.raised = "none"
               /\ Len(df.rows) = 0 => IsZero(ret.value.failure_rate)
        /\ ret.fn = "compute_failure_mode_counts" =>
               /\ ret.raised = "none"
               /\ \A k \in DOMAIN ret.value :
                      /\ FailedRows = {} => IsZero(ret.value[k].pct_of_failures)
                      /\ Len(df.rows) = 0 => IsZero(ret.value[k].pct_of_total)
        /\ ret.fn = "compute_quantile_failure_rates" =>
               /\ ret.raised = "none"
               /\ \A k \in DOMAIN ret.value.segments :
                      ret.value.segments[k].count = 0 =>
                          /\ IsZero(ret.value.segments[k].failure_rate)
                          /\ IsZero(ret.value.segments[k].failure_rate_pct)

IsQuantileCall == ret.fn = "compute_quantile_failure_rates" /\ ret.raised = "none"

\* the rows that are both <= low_threshold and >= high_threshold
InLowAndHigh ==
    {i \in RowIds(df) :
        /\ ~IsNull(df, i, ret.value.column)
        /\ FracLe(Frac(Cell(df, i, ret.value.column), 1), ret.value.q_low_value)
        /\ FracGe(Frac(Cell(df, i, ret.value.column), 1), ret.value.q_high_value)}

\* every row is in a segment, Medium is disjoint from Low and from High, and
\* the three counts add up to the rows plus those in both Low and High
SegmentsCover ==
    LET low  == ret.value.segments[1]
        mid  == ret.value.segments[2]
        high == ret.value.segments[3]
    IN  /\ low.rows \cup mid.rows \cup high.rows = RowIds(df)
        /\ mid.rows \cap low.rows = {}
        /\ mid.rows \cap high.rows = {}
        /\ low.count = Cardinality(low.rows)
        /\ mid.count = Cardinality(mid.rows)
        /\ high.count = Cardinality(high.rows)
        /\ low.count + mid.count + high.count
               = Len(df.rows) + Cardinality(InLowAndHigh)
        /\ low.count + mid.count + high.count >= Len(df.rows)
        /\ low.count + mid.count + high.count = Len(df.rows)
               <=> low.rows \cap high.rows = {}

\* C4 as stated: for any column and q_low < q_high, low_threshold <=
\* high_threshold and the segments cover the rows as above.
C4_ThresholdsOrderedAndCover ==
    IsQuantileCall =>
        /\ FracLe(ret.value.q_low_value, ret.value.q_high_value)
        /\ SegmentsCover

HasValue(c) == \E i \in RowIds(df) : ~IsNull(df, i, c)

\* C4 amended: the segments cover the rows as above for any column, and
\* low_threshold <= high_threshold for any column holding at least one
\* value; for a column without values both thresholds are NaN.
C4_CoverAndOrderedWhenValued ==
    IsQuantileCall =>
        /\ SegmentsCover
        /\ HasValue(ret.value.column) =>
               FracLe(ret.value.q_low_value, ret.value.q_high_value)
        /\ ~HasValue(ret.value.column) =>
               IsNaN(ret.value.q_low_value) /\ IsNaN(ret.value.q_high_value)

\* a row lies in both Low and High, so the counts add up to more than the
\* rows, while the thresholds are ordered
C4_Witness ==
    /\ IsQuantileCall
    /\ InLowAndHigh # {}
    /\ ret.value.segments[1].count + ret.value.segments[2].count
           + ret.value.segments[3].count > Len(df.rows)
    /\ FracLe(ret.value.q_low_value, ret.value.q_high_value)

IsCategorizeCall == ret.fn = "categorize_by_quantiles" /\ ret.raised = "none"

Labelled(l) == {i \in DOMAIN ret.value.labels : ret.value.labels[i] = l}

\* the row set of segment k of compute_quantile_failure_rates for the column
\* and quantile pair of the categorisation held by ret
SegmentRows(k) ==
    compute_quantile_failure_rates(
        df, ret.value.column, ret.value.q_low, ret.value.q_high
    ).value.segments[k].rows

\* C5 as stated: the rows labelled Low, Medium and High are the rows counted
\* in the Low, Medium and High segments.
C5_LabelsEqualSegments ==
    IsCategorizeCall =>
        /\ Labelled("Low") = SegmentRows(1)
        /\ Labelled("Medium") = SegmentRows(2)
        /\ Labelled("High") = SegmentRows(3)

\* C5 amended: the rows labelled Low and Medium are those of the Low and
\* Medium segments; the rows labelled High are those of the High segment
\* that are not also in the Low segment.
C5_LabelsEqualSegmentsLowFirst ==
    IsCategorizeCall =>
        /\ Labelled("Low") = SegmentRows(1)
        /\ Labelled("Medium") = SegmentRows(2)
        /\ Labelled("High") = SegmentRows(3) \ SegmentRows(1)
        /\ SegmentRows(1) \cap SegmentRows(3) = {}
               => Labelled("High") = SegmentRows(3)

\* a degenerate boundary: rows counted in both Low and High are labelled Low,
\* while another row is labelled High
C5_Witness ==
    /\ IsCategorizeCall
    /\ SegmentRows(1) \cap SegmentRows(3) # {}
    /\ SegmentRows(1) \cap SegmentRows(3) \subseteq Labelled("Low")
    /\ Labelled("High") # {}

\* C10: total_records is the number of rows, failure_count the sum of the
\* target, failure_rate their quotient (0.0 for no rows) and failure_rate_pct
\* a hundred times the rate; the target 0, 1, 0 gives 1 failure and 1/3.
C10_OverallFailureRate ==
    (ret.fn = "compute_overall_failure_rate") =>
        /\ ret.raised = "none"
        /\ ret.value.total_records = Len(df.rows)
        /\ ret.value.failure_count = Cardinality(FailedRows)
        /\ Len(df.rows) > 0 =>
               FracEq(ret.value.failure_rate,
                      Frac(Cardinality(FailedRows), Len(df.rows)))
        /\ Len(df.rows) = 0 => IsZero(ret.value.failure_rate)
        /\ ret.value.failure_rate_pct.num * ret.value.failure_rate.den
               = 100 * ret.value.failure_rate.num * ret.value.failure_rate_pct.den
        /\ ~IsNaN(ret.value.failure_rate_pct)
        /\ (/\ Len(df.rows) = 3
            /\ \A i \in RowIds(df) : ~IsNull(df, i, TARGET_COL)
            /\ [i \in RowIds(df) |-> Cell(df, i, TARGET_COL)] = <<0, 1, 0>>)
               => /\ ret.value.failure_count = 1
                  /\ FracEq(ret.value.failure_rate, Frac(1, 3))

\* the target is 0, 1, 0 and the rate returned is 1/3
C10_Witness ==
    /\ ret.fn = "compute_overall_failure_rate"
    /\ Len(df.rows) = 3
    /\ \A i \in RowIds(df) : ~IsNull(df, i, TARGET_COL)
    /\ [i \in RowIds(df) |-> Cell(df, i, TARGET_COL)] = <<0, 1, 0>>
    /\ ret.value.failure_count = 1
    /\ ret.value.failure_rate.num * 3 = ret.value.failure_rate.den

(***************************************************************************)
(* src/kpi.py: compute_failure_rate_by_type.                               *)
(***************************************************************************)
\* the Type values explored, in the lexicographic order of Python strings
TYPE_UNIVERSE == << "A", "H", "L", "M", "X" >>

\* type_order = {"L": 0, "M": 1, "H": 2}
type_order == [t \in VALID_TYPES |-> IF t = "L" THEN 0 ELSE IF t = "M" THEN 1 ELSE 2]

\* only the rows of a valid Type are grouped
GroupRows_valid_only(d, t) ==
    {i \in RowIds(d) :
        ~IsNull(d, i, "Type") /\ Cell(d, i, "Type") = t /\ t \in VALID_TYPES}

\* the rows of one group: groupby drops the rows whose key is NaN
GroupRows(d, t) ==
    {i \in RowIds(d) : ~IsNull(d, i, "Type") /\ Cell(d, i, "Type") = t}

\* one row of the aggregated table, with failure_rate and failure_rate_pct
group_record(d, t) ==
    LET count         == Cardinality(GroupRows(d, t))
        failure_count == SumOver(d, TARGET_COL, GroupRows(d, t))
        failure_rate  == Frac(failure_count, count)
    IN  [Type             |-> t,
         count            |-> count,
         failure_count    |-> failure_count,
         failure_rate     |-> failure_rate,
         failure_rate_pct |-> Pct(failure_rate)]

\* df.groupby("Type").agg(...).reset_index(): one row per key, keys ascending
RECURSIVE GroupedUpTo(_, _)
GroupedUpTo(d, k) ==
    IF k = 0 THEN <<>>
    ELSE IF GroupRows(d, TYPE_UNIVERSE[k]) # {}
         THEN Append(GroupedUpTo(d, k - 1), group_record(d, TYPE_UNIVERSE[k]))
         ELSE GroupedUpTo(d, k - 1)

grouped_by_type(d) == GroupedUpTo(d, Len(TYPE_UNIVERSE))

\* the rows of g whose sort_key satisfies a test, in the order of g
RECURSIVE KeyedRows(_, _)
KeyedRows(g, key) ==
    IF g = <<>> THEN <<>>
    ELSE IF Head(g).Type \in VALID_TYPES /\ type_order[Head(g).Type] = key
         THEN <<Head(g)>> \o KeyedRows(Tail(g), key)
         ELSE KeyedRows(Tail(g), key)

RECURSIVE UnkeyedRows(_)
UnkeyedRows(g) ==
    IF g = <<>> THEN <<>>
    ELSE IF Head(g).Type \notin VALID_TYPES
         THEN <<Head(g)>> \o UnkeyedRows(Tail(g))
         ELSE UnkeyedRows(Tail(g))

\* the table is returned in groupby order
sort_by_type_unsorted(g) == g

\* the rows without a sort key are dropped
sort_by_type_dropna(g) ==
    KeyedRows(g, 0) \o KeyedRows(g, 1) \o KeyedRows(g, 2)

\* grouped["Type"].map(type_order), sort_values("sort_key"): ascending keys,
\* the rows whose key is NaN last in their original order
sort_by_type(g) ==
    KeyedRows(g, 0) \o KeyedRows(g, 1) \o KeyedRows(g, 2) \o UnkeyedRows(g)

compute_failure_rate_by_type(d) ==
    IF "Type" \notin d.cols \/ TARGET_COL \notin d.cols
    THEN Raised("compute_failure_rate_by_type", "KeyError")
    ELSE Returned("compute_failure_rate_by_type",
                  sort_by_type(grouped_by_type(d)))

(***************************************************************************)
(* The datasets the aggregation by Type is explored on: every required     *)
(* column present, rows that vary the Type and the target.                 *)
(***************************************************************************)
TypeRows ==
    {WithVal(FlagRow(t, {}), "Type", ty) :
        t \in {0, 1}, ty \in Range(TYPE_UNIVERSE)}
    \cup {WithNull(FlagRow(1, {}), "Type")}

TypeDatasets ==
    {[cols |-> AllColumns, rows |-> rs] : rs \in SeqsUpTo(TypeRows, MaxRowsKpi)}

InitType ==
    /\ df \in TypeDatasets
    /\ results = <<>>
    /\ ret = NoCall
    /\ calls = 0

ComputeFailureRateByType ==
    /\ ret' = compute_failure_rate_by_type(df)
    /\ df' = table_after("compute_failure_rate_by_type", df)
    /\ UNCHANGED results

NextType ==
    \/ ComputeFailureRateByType /\ UNCHANGED calls
    \/ ComputeOverallFailureRate /\ UNCHANGED calls

SpecType == InitType /\ [][NextType]_vars

IsByTypeCall == ret.fn = "compute_failure_rate_by_type" /\ ret.raised = "none"

\* the non-null Type values of the dataset
TypesPresent ==
    {Cell(df, i, "Type") : i \in {j \in RowIds(df) : ~IsNull(df, j, "Type")}}

LMH == << "L", "M", "H" >>

PosLMH(t) == CHOOSE k \in 1..Len(LMH) : LMH[k] = t

\* C11: the groups of L, M and H are returned in that order whatever the order
\* of the input rows, a Type that does not occur has no group, and each
\* group's count and failure_count are the number of rows of that Type and
\* the number of them that failed.
C11_ByTypeOrderAndCounts ==
    (ret.fn = "compute_failure_rate_by_type") =>
        /\ ret.raised = "none"
        /\ \A i, j \in DOMAIN ret.value :
               (/\ i < j
                /\ ret.value[i].Type \in VALID_TYPES
                /\ ret.value[j].Type \in VALID_TYPES)
                   => PosLMH(ret.value[i].Type) < PosLMH(ret.value[j].Type)
        /\ \A i, j \in DOMAIN ret.value :
               ret.value[i].Type = ret.value[j].Type => i = j
        /\ {ret.value[i].Type : i \in DOMAIN ret.value} \cap VALID_TYPES
               = TypesPresent \cap VALID_TYPES
        /\ TypesPresent \subseteq VALID_TYPES =>
               \A i \in DOMAIN ret.value :
                   ret.value[i].Type =
                       LMH[CHOOSE k \in 1..Len(LMH) :
                               /\ LMH[k] \in TypesPresent
                               /\ Cardinality({m \in 1..k : LMH[m] \in TypesPresent}) = i]
        /\ \A i \in DOMAIN ret.value :
               LET rows == {r \in RowIds(df) :
                               /\ ~IsNull(df, r, "Type")
                               /\ Cell(df, r, "Type") = ret.value[i].Type}
               IN  /\ ret.value[i].count = Cardinality(rows)
                   /\ ret.value[i].failure_count = Cardinality(rows \cap FailedRows)

\* the rows come as H, M, L and the groups are returned as L, M, H
C11_Witness ==
    /\ IsByTypeCall
    /\ Len(df.rows) = 3
    /\ \A i \in RowIds(df) : ~IsNull(df, i, "Type")
    /\ [i \in RowIds(df) |-> Cell(df, i, "Type")] = << "H", "M", "L" >>
    /\ [i \in DOMAIN ret.value |-> ret.value[i].Type] = LMH
    /\ \E i \in DOMAIN ret.value : ret.value[i].failure_count = 1

\* C17 as stated: the output holds groups for L, M and H only; the rows of
\* any other Type are dropped.
C17_UnknownTypesDropped ==
    IsByTypeCall =>
        \A i \in DOMAIN ret.value : ret.value[i].Type \in VALID_TYPES

\* C17 amended: every non-null Type value of the dataset has a group, also
\* one outside L, M, H; the groups of unknown Types come after those of
\* L, M and H and count their rows; only rows whose Type is NaN are left out.
C17_UnknownTypesKeptLast ==
    IsByTypeCall =>
        /\ {ret.value[i].Type : i \in DOMAIN ret.value} = TypesPresent
        /\ \A i, j \in DOMAIN ret.value :
               (/\ ret.value[i].Type \notin VALID_TYPES
                /\ ret.value[j].Type \in VALID_TYPES) => j < i
        /\ \A i \in DOMAIN ret.value :
               ret.value[i].Type \notin VALID_TYPES =>
                   ret.value[i].count =
                       Cardinality({r \in RowIds(df) :
                           /\ ~IsNull(df, r, "Type")
                           /\ Cell(df, r, "Type") = ret.value[i].Type})

\* a row of Type X and a row of Type L: the group of X is returned after L
C17_Witness ==
    /\ IsByTypeCall
    /\ "X" \in TypesPresent
    /\ \E i, j \in DOMAIN ret.value :
           i < j /\ ret.value[i].Type = "L" /\ ret.value[j].Type = "X"
                 /\ ret.value[j].count >= 1

(***************************************************************************)
(* Properties of compute_failure_mode_counts.                              *)
(***************************************************************************)
\* the rows whose flag of the given mode is 1
FlaggedRows(m) == {i \in RowIds(df) : ~IsNull(df, i, m) /\ Cell(df, i, m) = 1}

\* the set flags of the dataset, as (row, mode) pairs
SetFlags == {p \in RowIds(df) \X ModeCols : p[1] \in FlaggedRows(p[2])}

RECURSIVE SumCounts(_, _)
SumCounts(t, k) == IF k = 0 THEN 0 ELSE SumCounts(t, k - 1) + t[k].count

\* the five modes in the order TWF, HDF, PWF, OSF, RNF, each counted on its
\* own, with pct_of_failures = count / total_failures * 100, or 0
ModeTableAsClaimed(t) ==
    /\ [k \in DOMAIN t |-> t[k].failure_mode] = FAILURE_MODE_COLS
    /\ \A k \in DOMAIN t :
           /\ t[k].count = Cardinality(FlaggedRows(t[k].failure_mode))
           /\ FailedRows # {} =>
                  FracEq(t[k].pct_of_failures,
                         Frac(100 * t[k].count, Cardinality(FailedRows)))
           /\ FailedRows = {} => IsZero(t[k].pct_of_failures)
    /\ SumCounts(t, Len(t)) = Cardinality(SetFlags)

\* C12: for every dataset compute_failure_mode_counts reports the five modes
\* in the fixed order, count(mode) is the sum of that flag over all rows, the
\* counts add up to the number of set flags, and pct_of_failures is
\* count / total_failures * 100, or 0 when total_failures = 0.
C12_ModeCountsIndependent ==
    (ret.fn = "compute_failure_mode_counts") =>
        /\ ret.raised = "none"
        /\ ModeTableAsClaimed(ret.value)

\* C12 on the datasets with at least one row, where the call returns
C12_ModeCountsOnRows ==
    (ret.fn = "compute_failure_mode_counts" /\ Len(df.rows) > 0) =>
        /\ ret.raised = "none"
        /\ ModeTableAsClaimed(ret.value)

\* a failed row with two flags set: it counts for two modes, and the
\* percentages of failures add up to 200
C12_MultiLabelReached ==
    /\ ret.fn = "compute_failure_mode_counts"
    /\ ret.raised = "none"
    /\ Cardinality(FailedRows) = 1
    /\ \E i \in FailedRows :
           Cardinality({m \in ModeCols : i \in FlaggedRows(m)}) = 2
    /\ SumCounts(ret.value, Len(ret.value)) = 2
    /\ ret.value[1].pct_of_failures.num = 100 * ret.value[1].pct_of_failures.den
    /\ ret.value[2].pct_of_failures.num = 100 * ret.value[2].pct_of_failures.den

(***************************************************************************)
(* src/preprocess.py: add_temp_delta, and src/kpi.py:                      *)
(* compute_temp_delta_stats and generate_kpi_summary.                      *)
(***************************************************************************)
DELTA_COL == "Temp_Delta [K]"

PROCESS_COL == "Process temperature [K]"

AIR_COL == "Air temperature [K]"

\* df["Temp_Delta [K]"] = df["Process temperature [K]"] - df["Air temperature [K]"]
\* on the table it is applied to; the difference is NaN where either is NaN
assign_temp_delta(d) ==
    [cols |-> d.cols \cup {DELTA_COL},
     rows |-> [i \in RowIds(d) |->
        LET r == d.rows[i]
        IN  [val   |-> [c \in DOMAIN r.val \cup {DELTA_COL} |->
                           IF c = DELTA_COL
                           THEN r.val[PROCESS_COL] - r.val[AIR_COL]
                           ELSE r.val[c]],
             nulls |-> IF PROCESS_COL \in r.nulls \/ AIR_COL \in r.nulls
                       THEN r.nulls \cup {DELTA_COL}
                       ELSE r.nulls \ {DELTA_COL}]]]

\* the column is assigned on the caller's table, no copy is taken
add_temp_delta_inplace(d) ==
    IF PROCESS_COL \notin d.cols \/ AIR_COL \notin d.cols
    THEN [input |-> d, out |-> Raised("add_temp_delta", "KeyError")]
    ELSE [input |-> assign_temp_delta(d),
          out   |-> Returned("add_temp_delta", assign_temp_delta(d))]

\* input is the caller's table after the call, out the outcome of the call:
\* the column is assigned on a copy, which is returned
add_temp_delta(d) ==
    IF PROCESS_COL \notin d.cols \/ AIR_COL \notin d.cols
    THEN [input |-> d, out |-> Raised("add_temp_delta", "KeyError")]
    ELSE [input |-> d,
          out   |-> Returned("add_temp_delta", assign_temp_delta(d))]

preprocess_data(d) ==
    LET call == add_temp_delta(d)
    IN  [input |-> call.input,
         out   |-> IF call.out.raised = "none"
                   THEN Returned("preprocess_data", call.out.value)
                   ELSE Raised("preprocess_data", call.out.raised)]

\* df[df[TARGET_COL] == v]
TargetIs(d, v) ==
    [cols |-> d.cols,
     rows |-> SelectSeq(d.rows,
                  LAMBDA r : TARGET_COL \notin r.nulls /\ r.val[TARGET_COL] = v)]

\* Series.count(): the cells that are not NaN
SeriesCount(d, c) == Cardinality({i \in RowIds(d) : ~IsNull(d, i, c)})

RECURSIVE SumSquares(_, _, _)
SumSquares(d, c, n) ==
    IF n = 0 THEN 0
    ELSE SumSquares(d, c, n - 1)
         + (IF IsNull(d, n, c) THEN 0 ELSE Cell(d, n, c) * Cell(d, n, c))

\* Series.mean(): NaN cells are skipped, NaN when nothing is left
SeriesMean(d, c) ==
    IF SeriesCount(d, c) = 0 THEN NaN
    ELSE Frac(SeriesSum(d, c), SeriesCount(d, c))

\* Series.median()
SeriesMedian(d, c) == Quantile(d, c, 5)

\* the square of Series.std(), the sample variance with the n - 1
\* denominator; NaN with fewer than two values
SeriesStdSquared(d, c) ==
    LET n == SeriesCount(d, c)
        s == SeriesSum(d, c)
    IN  IF n < 2 THEN NaN
        ELSE Frac(n * SumSquares(d, c, Len(d.rows)) - s * s, n * (n - 1))

\* the statistics of one split; std is kept as its square
split_stats(d) ==
    [count  |-> Len(d.rows),
     mean   |-> SeriesMean(d, DELTA_COL),
     median |-> SeriesMedian(d, DELTA_COL),
     std    |-> SeriesStdSquared(d, DELTA_COL)]

TEMP_DELTA_ERROR == "Column 'Temp_Delta [K]' not found. Run preprocessing first."

\* the payload is a function from its keys
compute_temp_delta_stats(d) ==
    IF DELTA_COL \notin d.cols
    THEN Returned("compute_temp_delta_stats",
             [k \in {"error"} |-> TEMP_DELTA_ERROR])
    ELSE IF TARGET_COL \notin d.cols
         THEN Raised("compute_temp_delta_stats", "KeyError")
         ELSE Returned("compute_temp_delta_stats",
                  [k \in {"overall", "failed", "not_failed"} |->
                      IF k = "overall"
                      THEN [mean   |-> SeriesMean(d, DELTA_COL),
                            median |-> SeriesMedian(d, DELTA_COL),
                            std    |-> SeriesStdSquared(d, DELTA_COL),
                            min    |-> SeriesMin(d, DELTA_COL),
                            max    |-> SeriesMax(d, DELTA_COL)]
                      ELSE IF k = "failed" THEN split_stats(TargetIs(d, 1))
                      ELSE split_stats(TargetIs(d, 0))])

SUMMARY_QUANTILE_COLS ==
    << "Torque [Nm]", "Tool wear [min]", "Rotational speed [rpm]" >>

\* the first exception among the outcomes, "none" when every call returned
RECURSIVE FirstRaised(_)
FirstRaised(outs) ==
    IF outs = <<>> THEN "none"
    ELSE IF Head(outs).raised # "none" THEN Head(outs).raised
         ELSE FirstRaised(Tail(outs))

\* the lines of the Temperature Delta section: the error text, or the table
\* of the two splits
temp_delta_section(temp_stats) ==
    IF "error" \in DOMAIN temp_stats
    THEN [error |-> temp_stats["error"]]
    ELSE [failed     |-> temp_stats["failed"],
          not_failed |-> temp_stats["not_failed"]]

quantile_section(q_stats) ==
    [title        |-> q_stats.column,
     q_low_value  |-> q_stats.q_low_value,
     q_high_value |-> q_stats.q_high_value,
     segments     |-> [k \in DOMAIN q_stats.segments |->
                          [segment          |-> q_stats.segments[k].segment,
                           count            |-> q_stats.segments[k].count,
                           failure_count    |-> q_stats.segments[k].failure_count,
                           failure_rate_pct |-> q_stats.segments[k].failure_rate_pct]]]

\* the document as its sections in order, each with the values rendered in
\* it; an exception of one of the calls leaves the function
generate_kpi_summary(d) ==
    LET overall    == compute_overall_failure_rate(d)
        by_type    == compute_failure_rate_by_type(d)
        modes      == compute_failure_mode_counts(d)
        temp_stats == compute_temp_delta_stats(d)
        q_stats    == [k \in DOMAIN SUMMARY_QUANTILE_COLS |->
                          compute_quantile_failure_rates(
                              d, SUMMARY_QUANTILE_COLS[k], Q_LOW, Q_HIGH)]
        raised     == FirstRaised(<<overall, by_type, modes, temp_stats>> \o q_stats)
    IN  IF raised # "none"
        THEN Raised("generate_kpi_summary", raised)
        ELSE Returned("generate_kpi_summary",
                 << [title |-> "Dataset Overview",
                     body  |-> [total_records    |-> overall.value.total_records,
                                failure_count    |-> overall.value.failure_count,
                                failure_rate_pct |-> overall.value.failure_rate_pct]],
                    [title |-> "Failure Rate by Product Type",
                     body  |-> [k \in DOMAIN by_type.value |->
                                   [Type             |-> by_type.value[k].Type,
                                    count            |-> by_type.value[k].count,
                                    failure_count    |-> by_type.value[k].failure_count,
                                    failure_rate_pct |-> by_type.value[k].failure_rate_pct]]],
                    [title |-> "Failure Mode Distribution",
                     body  |-> [k \in DOMAIN modes.value |->
                                   [failure_mode    |-> modes.value[k].failure_mode,
                                    count           |-> modes.value[k].count,
                                    pct_of_failures |-> modes.value[k].pct_of_failures]]],
                    [title |-> "Temperature Delta Analysis",
                     body  |-> temp_delta_section(temp_stats.value)],
                    [title |-> "Quantile Threshold Analysis",
                     body  |-> [k \in DOMAIN q_stats |->
                                   quantile_section(q_stats[k].value)]] >>)

(***************************************************************************)
(* The datasets the temperature functions are explored on: every required  *)
(* column present, up to MaxRowsKpi rows that vary the two temperatures    *)
(* and the target, before and after preprocessing.                         *)
(***************************************************************************)
TempRows ==
    {WithVal(WithVal(FlagRow(t, {}), AIR_COL, tp[1]), PROCESS_COL, tp[2]) :
        t \in {0, 1}, tp \in {<<1, 1>>, <<1, 3>>, <<2, 1>>}}
    \cup {WithNull(NominalRow, AIR_COL), WithNull(FlagRow(1, {}), TARGET_COL)}

RawTempDatasets ==
    {[cols |-> AllColumns, rows |-> rs] : rs \in SeqsUpTo(TempRows, MaxRowsKpi)}

TempDatasets ==
    RawTempDatasets \cup {preprocess_data(d).out.value : d \in RawTempDatasets}

InitTemp ==
    /\ df \in TempDatasets
    /\ results = <<>>
    /\ ret = NoCall
    /\ calls = 0

AddTempDelta ==
    LET call == add_temp_delta(df)
    IN  /\ df' = call.input
        /\ ret' = call.out
        /\ UNCHANGED results

ComputeTempDeltaStats ==
    /\ ret' = compute_temp_delta_stats(df)
    /\ df' = table_after("compute_temp_delta_stats", df)
    /\ UNCHANGED results

GenerateKpiSummary ==
    /\ ret' = generate_kpi_summary(df)
    /\ df' = table_after("generate_kpi_summary", df)
    /\ UNCHANGED results

NextTemp ==
    \/ AddTempDelta /\ UNCHANGED calls
    \/ ComputeTempDeltaStats /\ UNCHANGED calls
    \/ GenerateKpiSummary /\ UNCHANGED calls

SpecTemp == InitTemp /\ [][NextTemp]_vars

\* C14: add_temp_delta leaves its input as it was and returns a table whose
\* columns are the input's plus Temp_Delta [K], whose other columns hold the
\* input's values, and whose Temp_Delta [K] is, row by row, the process
\* temperature minus the air temperature.
C14_AddTempDeltaFrame ==
    [][(ret'.fn = "add_temp_delta") =>
          /\ df' = df
          /\ ret'.raised = "none"
          /\ ret'.value.cols = df.cols \cup {DELTA_COL}
          /\ Len(ret'.value.rows) = Len(df.rows)
          /\ \A i \in RowIds(df) :
                /\ \A c \in DOMAIN df.rows[i].val \ {DELTA_COL} :
                      /\ IsNull(ret'.value, i, c) <=> IsNull(df, i, c)
                      /\ Cell(ret'.value, i, c) = Cell(df, i, c)
                /\ IsNull(ret'.value, i, DELTA_COL)
                      <=> (IsNull(df, i, PROCESS_COL) \/ IsNull(df, i, AIR_COL))
                /\ ~IsNull(ret'.value, i, DELTA_COL) =>
                      Cell(ret'.value, i, DELTA_COL)
                          = Cell(df, i, PROCESS_COL) - Cell(df, i, AIR_COL)
    ]_vars

\* add_temp_delta has returned for a table without the derived column whose
\* rows have a positive, a negative and an undefined difference
C14_Witness ==
    /\ ret.fn = "add_temp_delta"
    /\ ret.raised = "none"
    /\ DELTA_COL \notin df.cols
    /\ DELTA_COL \in ret.value.cols
    /\ \E i, j, k \in RowIds(df) :
          /\ ~IsNull(ret.value, i, DELTA_COL) /\ Cell(ret.value, i, DELTA_COL) = 2
          /\ ~IsNull(ret.value, j, DELTA_COL) /\ Cell(ret.value, j, DELTA_COL) = -1
          /\ IsNull(ret.value, k, DELTA_COL)

\* the payload of compute_temp_delta_stats is as claimed: only the error
\* description when the derived column is absent, no error key otherwise
TempPayloadAsClaimed ==
    (ret.fn = "compute_temp_delta_stats") =>
        /\ ret.raised = "none"
        /\ DELTA_COL \notin df.cols =>
              /\ DOMAIN ret.value = {"error"}
              /\ ret.value["error"] = TEMP_DELTA_ERROR
        /\ DELTA_COL \in df.cols => "error" \notin DOMAIN ret.value

\* the summary of a table without the derived column holds the error text in
\* its Temperature Delta section and the quantile analysis of the three
\* columns after it
SummaryRendersError ==
    (ret.fn = "generate_kpi_summary" /\ DELTA_COL \notin df.cols) =>
        /\ ret.raised = "none"
        /\ Len(ret.value) = 5
        /\ ret.value[4].title = "Temperature Delta Analysis"
        /\ ret.value[4].body = [error |-> TEMP_DELTA_ERROR]
        /\ ret.value[5].title = "Quantile Threshold Analysis"
        /\ [k \in DOMAIN ret.value[5].body |-> ret.value[5].body[k].title]
               = SUMMARY_QUANTILE_COLS

\* C13: without the derived column compute_temp_delta_stats returns a payload
\* holding only an error description and does not raise, and
\* generate_kpi_summary renders that text in the Temperature Delta section and
\* still produces every later section; with the column the payload has no
\* error key.
C13_ErrorPayloadRendered == TempPayloadAsClaimed /\ SummaryRendersError

\* the summary part of C13 on the datasets with at least one row
C13_RenderedOnRows == Len(df.rows) > 0 => SummaryRendersError

\* the summary of a table without the derived column was produced
C13_SummaryReached ==
    /\ ret.fn = "generate_kpi_summary"
    /\ ret.raised = "none"
    /\ DELTA_COL \notin df.cols
    /\ Len(df.rows) = MaxRowsKpi
    /\ ret.value[4].body = [error |-> TEMP_DELTA_ERROR]

\* the summary of a preprocessed table holds the statistics of both splits
C13_StatsReached ==
    /\ ret.fn = "generate_kpi_summary"
    /\ ret.raised = "none"
    /\ DELTA_COL \in df.cols
    /\ DOMAIN ret.value[4].body = {"failed", "not_failed"}
    /\ ret.value[4].body.failed.count = 2
    /\ ~IsNaN(ret.value[4].body.failed.std)
    /\ IsNaN(ret.value[4].body.not_failed.std)

(***************************************************************************)
(* Properties of the Type Domain check.                                    *)
(***************************************************************************)
\* the observed Type values outside VALID_TYPES, a NaN cell among them
OutsideTypes ==
    {Cell(df, i, "Type") :
        i \in {j \in RowIds(df) :
                  ~IsNull(df, j, "Type") /\ Cell(df, j, "Type") \notin VALID_TYPES}}
    \cup (IF \E i \in RowIds(df) : IsNull(df, i, "Type") THEN {"NaN"} ELSE {})

\* C15: without the Type column the Type Domain check fails with the message
\* that the column was not found and the Required Columns check fails with
\* Type among missing_columns; with the column the Type Domain check fails
\* exactly when an observed value lies outside {L, M, H}, and invalid_values
\* is exactly the set of those values.
C15_TypeDomain ==
    /\ \A i \in Entries("Type Domain") :
          LET r == results[i]
          IN  /\ "Type" \notin df.cols =>
                    /\ r.status = "FAIL"
                    /\ r.message.text = "'Type' column not found."
              /\ "Type" \in df.cols =>
                    /\ r.status \in {"PASS", "FAIL"}
                    /\ r.status = "FAIL" <=> OutsideTypes # {}
                    /\ r.status = "FAIL" => r.details.invalid_values = OutsideTypes
    /\ \A i \in Entries("Required Columns") :
          "Type" \notin df.cols =>
              /\ results[i].status = "FAIL"
              /\ "Type" \in results[i].details.missing_columns

\* the battery ran on a table whose Type column holds a valid and an invalid
\* value, and the check failed naming the invalid one only
C15_Witness ==
    \E i \in Entries("Type Domain") :
        /\ "Type" \in df.cols
        /\ \E j, k \in RowIds(df) :
              /\ ~IsNull(df, j, "Type") /\ Cell(df, j, "Type") \in VALID_TYPES
              /\ ~IsNull(df, k, "Type") /\ Cell(df, k, "Type") = "X"
        /\ results[i].status = "FAIL"
        /\ results[i].details.invalid_values = {"X"}

\* the battery ran on a table without the Type column and both checks failed
C15_MissingTypeReached ==
    /\ "Type" \notin df.cols
    /\ \E i \in Entries("Type Domain") : results[i].status = "FAIL"
    /\ \E i \in Entries("Required Columns") :
          "Type" \in results[i].details.missing_columns

(***************************************************************************)
(* The sample of the Failure Consistency check, on tables of MaxLabel + 1  *)
(* rows as load_csv returns them (labels 0..MaxLabel): the rows of         *)
(* SampleCandidates either violate the rule, through TWF, HDF or both, or  *)
(* do not; every other row is consistent.                                  *)
(***************************************************************************)
SampleCandidates == 0..SAMPLE_LIMIT \cup {MaxLabel}

SampleRow(l, violating) ==
    IF l \in violating
    THEN FlagRow(0, IF l % 3 = 0 THEN {"TWF"}
                    ELSE IF l % 3 = 1 THEN {"HDF"} ELSE {"TWF", "HDF"})
    ELSE IF l % 2 = 0 THEN FlagRow(0, {}) ELSE FlagRow(1, {"TWF"})

SampleDatasets ==
    {[cols |-> AllColumns,
      rows |-> [i \in 1..(MaxLabel + 1) |-> SampleRow(Label(i), violating)]] :
        violating \in SUBSET SampleCandidates}

InitSample ==
    /\ df \in SampleDatasets
    /\ results = <<>>
    /\ ret = NoCall
    /\ calls = 0

NextSample == RunAllChecks /\ UNCHANGED calls

SpecSample == InitSample /\ [][NextSample]_vars

\* the labels of the violating rows
ViolatingLabels == {Label(j) : j \in {k \in RowIds(df) : Inconsistent(k)}}

\* the first min(SAMPLE_LIMIT, n) violating rows in row order
FirstViolating ==
    {b \in ViolatingLabels :
        Cardinality({c \in ViolatingLabels : c < b}) < SAMPLE_LIMIT}

\* C18: when Failure Consistency warns with n violating rows, sample_indices
\* holds exactly min(10, n) distinct row IDs, each of a violating row, and
\* they are the first min(10, n) violating rows in the row order of the
\* dataset, whichever failure mode exposed them.
C18_SampleIsFirstTen ==
    \A i \in Entries("Failure Consistency") :
        results[i].status = "WARN" /\ TARGET_COL \in df.cols =>
            LET sample == results[i].details.sample_indices
            IN  /\ Len(sample) = Min2(SAMPLE_LIMIT, Cardinality(ViolatingLabels))
                /\ Cardinality(Range(sample)) = Len(sample)
                /\ Range(sample) \subseteq ViolatingLabels
                /\ Range(sample) = FirstViolating

\* the part of C18 that holds: the sample is made of min(10, n) distinct
\* violating rows
C18_SampleOfViolators ==
    \A i \in Entries("Failure Consistency") :
        results[i].status = "WARN" /\ TARGET_COL \in df.cols =>
            LET sample == results[i].details.sample_indices
            IN  /\ Len(sample) = Min2(SAMPLE_LIMIT, Cardinality(ViolatingLabels))
                /\ Cardinality(Range(sample)) = Len(sample)
                /\ Range(sample) \subseteq ViolatingLabels

\* rows 1..10 and the last row violate: the sample starts with the last row
\* and leaves row 10 out
C18_LastRowSampledFirst ==
    \E i \in Entries("Failure Consistency") :
        /\ ViolatingLabels = (1..SAMPLE_LIMIT) \cup {MaxLabel}
        /\ results[i].details.sample_indices[1] = MaxLabel
        /\ SAMPLE_LIMIT \notin Range(results[i].details.sample_indices)

(***************************************************************************)
(* src/validation.py: the checks called one by one, and generate_report.   *)
(***************************************************************************)
MaxCalls == 4

\* the report as the values rendered in it: the header, one table row per
\* result, the three counts, and a details entry per WARN or FAIL result
generate_report(d, rs) ==
    [total_records |-> Len(d.rows),
     total_columns |-> Cardinality(d.cols),
     rows          |-> [k \in DOMAIN rs |->
                           [check_name |-> rs[k].check_name,
                            status     |-> rs[k].status,
                            message    |-> rs[k].message]],
     pass_count    |-> Cardinality({k \in DOMAIN rs : rs[k].status = "PASS"}),
     warn_count    |-> Cardinality({k \in DOMAIN rs : rs[k].status = "WARN"}),
     fail_count    |-> Cardinality({k \in DOMAIN rs :
                                       rs[k].status \notin {"PASS", "WARN"}}),
     details       |-> SelectSeq(rs, LAMBDA r : r.status \in {"WARN", "FAIL"})]

\* each check ends with self.results.append(result); return result
CheckRequiredColumns ==
    /\ results' = Append(results, check_required_columns(df))
    /\ ret' = Returned("check_required_columns", check_required_columns(df))
    /\ df' = table_after("check_required_columns", df)

CheckTypeDomain ==
    /\ results' = Append(results, check_type_domain(df))
    /\ ret' = Returned("check_type_domain", check_type_domain(df))
    /\ df' = table_after("check_type_domain", df)

CheckNumericRanges ==
    /\ results' = results \o check_numeric_ranges(df)
    /\ ret' = Returned("check_numeric_ranges", check_numeric_ranges(df))
    /\ df' = table_after("check_numeric_ranges", df)

CheckBinaryFlags ==
    /\ results' = Append(results, check_binary_flags(df))
    /\ ret' = Returned("check_binary_flags", check_binary_flags(df))
    /\ df' = table_after("check_binary_flags", df)

CheckFailureConsistency ==
    /\ results' = Append(results, check_failure_consistency(df))
    /\ ret' = Returned("check_failure_consistency", check_failure_consistency(df))
    /\ df' = table_after("check_failure_consistency", df)

CheckNullValues ==
    /\ results' = Append(results, check_null_values(df))
    /\ ret' = Returned("check_null_values", check_null_values(df))
    /\ df' = table_after("check_null_values", df)

GenerateReport ==
    /\ ret' = Returned("generate_report", generate_report(df, results))
    /\ df' = table_after("generate_report", df)
    /\ UNCHANGED results

(***************************************************************************)
(* The Validator and the aggregations called in any order on one table.    *)
(***************************************************************************)
\* a table with every required column, one without the target column and a
\* preprocessed one, each with one row
OpsDatasets ==
    {[cols |-> AllColumns, rows |-> <<FlagRow(0, {"TWF"})>>],
     [cols |-> AllColumns \ {TARGET_COL}, rows |-> <<FlagRow(1, {})>>],
     preprocess_data([cols |-> AllColumns,
                      rows |-> <<FlagRow(1, {})>>]).out.value}

InitOps ==
    /\ df \in OpsDatasets
    /\ results = <<>>
    /\ ret = NoCall
    /\ calls = 0

\* The operations take no turn and have no precondition: any of them can be
\* called at any time.  A behaviour is a sequence of calls on one Validator
\* and its table; calls counts them, and the explored sequences have at most
\* MaxCalls calls.
Counted == calls < MaxCalls /\ calls' = calls + 1

NextOps ==
    \/ Counted /\ CheckRequiredColumns
    \/ Counted /\ CheckTypeDomain
    \/ Counted /\ CheckNumericRanges
    \/ Counted /\ CheckBinaryFlags
    \/ Counted /\ CheckFailureConsistency
    \/ Counted /\ CheckNullValues
    \/ Counted /\ RunAllChecks
    \/ Counted /\ GenerateReport
    \/ Counted /\ ComputeOverallFailureRate
    \/ Counted /\ ComputeFailureRateByType
    \/ Counted /\ ComputeFailureModeCounts
    \/ Counted /\ ComputeQuantileFailureRates
    \/ Counted /\ ComputeTempDeltaStats
    \/ Counted /\ GenerateKpiSummary

SpecOps == InitOps /\ [][NextOps]_vars

\* the names of the checks that can be called one by one
CheckNameOf ==
    [fn \in {"check_required_columns", "check_type_domain", "check_binary_flags",
             "check_failure_consistency", "check_null_values"} |->
        IF fn = "check_required_columns" THEN "Required Columns"
        ELSE IF fn = "check_type_domain" THEN "Type Domain"
        ELSE IF fn = "check_binary_flags" THEN "Binary Flags"
        ELSE IF fn = "check_failure_consistency" THEN "Failure Consistency"
        ELSE "Null Values"]

\* rs extended by exactly n entries, the earlier ones unchanged
ExtendsBy(rs_after, rs, n) ==
    /\ Len(rs_after) = Len(rs) + n
    /\ SubSeq(rs_after, 1, Len(rs)) = rs

\* C19: a check called directly appends exactly one result, its own, to the
\* result list (check_numeric_ranges one per configured column, in order) and
\* leaves the earlier entries as they were; run_all_checks leaves exactly the
\* results of its own battery, so that a second run leaves 10 results and not
\* 20; no other operation changes the list.
C19_ResultListHistory ==
    [][/\ ret'.fn \in DOMAIN CheckNameOf =>
             /\ ExtendsBy(results', results, 1)
             /\ results'[Len(results')] = ret'.value
             /\ ret'.value.check_name = CheckNameOf[ret'.fn]
       /\ ret'.fn = "check_numeric_ranges" =>
             /\ ExtendsBy(results', results, Len(VALIDATION_RULES))
             /\ SubSeq(results', Len(results) + 1, Len(results')) = ret'.value
             /\ \A k \in 1..Len(VALIDATION_RULES) :
                   ret'.value[k].check_name = RangeName(VALIDATION_RULES[k].col)
       /\ ret'.fn = "run_all_checks" =>
             /\ Len(results') = Len(VALIDATION_RULES) + 5
             /\ [k \in DOMAIN results' |-> results'[k].check_name] = ExpectedNames
             /\ results' = ret'.value
       /\ ret'.fn \notin DOMAIN CheckNameOf
                          \cup {"check_numeric_ranges", "run_all_checks"} =>
             results' = results
    ]_vars

\* four calls: after a full battery and three direct checks the list holds the
\* ten results of the battery followed by the three results, the last one
\* just returned
C19_Witness ==
    /\ calls = 4
    /\ Len(results) = Len(VALIDATION_RULES) + 5 + 3
    /\ [k \in 1..Len(ExpectedNames) |-> results[k].check_name] = ExpectedNames
    /\ results[Len(results) - 2].check_name = "Null Values"
    /\ results[Len(results) - 1].check_name = "Type Domain"
    /\ ret.fn = "check_required_columns"
    /\ results[Len(results)] = ret.value

\* C16: no operation of the Validator or of the aggregations changes the
\* columns or the values of the dataset it is given: the table after a call,
\* with the item assignments of the call applied, is the table before it.
C16_DatasetNeverMutated == [][df' = df]_vars

\* the by-Type aggregation, which assigns three columns, has just returned
\* its one group on a table that check_numeric_ranges and one more check
\* have read before, and the table is one of the initial ones
C16_Witness ==
    /\ calls = 3
    /\ Len(results) = Len(VALIDATION_RULES) + 1
    /\ ret.fn = "compute_failure_rate_by_type"
    /\ ret.raised = "none"
    /\ Len(ret.value) = 1
    /\ Len(item_assignments("compute_failure_rate_by_type", df)) = 3
    /\ df \in OpsDatasets

(***************************************************************************)
(* src/run_pipeline.py: main.  df is the file main reads and then the      *)
(* table it holds, ret the outcome of the last step main has taken; a step *)
(* that raises ends main, since only FileNotFoundError is caught.          *)
(***************************************************************************)
\* the input file does not exist
NoFile == [cols |-> {}, rows |-> <<>>, missing |-> TRUE]

FileExists(d) == "missing" \notin DOMAIN d

\* load_csv: FileNotFoundError when the path does not exist
load_csv(d) ==
    IF FileExists(d) THEN Returned("load_csv", d)
    ELSE Raised("load_csv", "FileNotFoundError")

\* sys.exit(1)
Exited(status) == [fn |-> "sys.exit", raised |-> "SystemExit", status |-> status]

\* save_markdown(content, path)
save_markdown(content, path) ==
    Returned("save_markdown", [path |-> path, content |-> content])

\* generate_all_figures: the three plots read Type, the target, the failure
\* modes and the derived column; the y limit of the first plot is the max()
\* of the rates of the groups, which raises when there is no group; the
\* drawing itself is taken to succeed
generate_all_figures(d) ==
    IF "Type" \notin d.cols \/ TARGET_COL \notin d.cols
    THEN Raised("generate_all_figures", "KeyError")
    ELSE IF grouped_by_type(d) = <<>>
    THEN Raised("generate_all_figures", "ValueError")
    ELSE IF ~(Range(FAILURE_MODE_COLS) \subseteq d.cols)
    THEN Raised("generate_all_figures", "KeyError")
    ELSE IF DELTA_COL \notin d.cols
    THEN Raised("generate_all_figures", "ValueError")
    ELSE Returned("generate_all_figures",
             << "failure_rate_by_type.png", "failure_mode_counts.png",
                "temp_delta_vs_failure.png" >>)

MainRows ==
    FewRows
    \cup {WithVal(NominalRow, "Type", "X"), WithVal(NominalRow, "Torque [Nm]", -1),
          WithNull(NominalRow, "Type")}

MainColumnChoices ==
    {AllColumns, AllColumns \ {PROCESS_COL}, AllColumns \ {"Type"},
     AllColumns \ {"TWF"}}

MainInputs ==
    {NoFile}
    \cup {[cols |-> cs, rows |-> rs] :
             cs \in MainColumnChoices, rs \in SeqsUpTo(MainRows, MaxRows)}

InitMain ==
    /\ df \in MainInputs
    /\ results = <<>>
    /\ ret = NoCall
    /\ calls = 0

\* step 1, and the handler of FileNotFoundError
MainLoad ==
    /\ ret = NoCall
    /\ ret' = IF load_csv(df).raised = "FileNotFoundError"
              THEN Exited(1) ELSE load_csv(df)
    /\ UNCHANGED <<df, results>>

\* step 2: validator.run_all_checks()
MainValidate ==
    /\ ret.fn = "load_csv"
    /\ RunAllChecks

\* validator.generate_report() and save_markdown
MainSaveReport ==
    /\ ret.fn = "run_all_checks"
    /\ ret' = save_markdown(generate_report(df, results), "validation_report.md")
    /\ UNCHANGED <<df, results>>

\* step 3: df = preprocess_data(df_raw)
MainPreprocess ==
    /\ ret.fn = "save_markdown" /\ ret.value.path = "validation_report.md"
    /\ ret' = preprocess_data(df).out
    /\ df' = IF ret'.raised = "none" THEN ret'.value ELSE df
    /\ UNCHANGED results

\* step 4: summary = generate_kpi_summary(df)
MainSummary ==
    /\ ret.fn = "preprocess_data" /\ ret.raised = "none"
    /\ ret' = generate_kpi_summary(df)
    /\ UNCHANGED <<df, results>>

MainSaveSummary ==
    /\ ret.fn = "generate_kpi_summary" /\ ret.raised = "none"
    /\ ret' = save_markdown(ret.value, "summary.md")
    /\ UNCHANGED <<df, results>>

\* step 5: generate_all_figures(df, FIGURES_DIR)
MainFigures ==
    /\ ret.fn = "save_markdown" /\ ret.value.path = "summary.md"
    /\ ret' = generate_all_figures(df)
    /\ UNCHANGED <<df, results>>

NextMain ==
    \/ MainLoad /\ UNCHANGED calls
    \/ MainValidate /\ UNCHANGED calls
    \/ MainSaveReport /\ UNCHANGED calls
    \/ MainPreprocess /\ UNCHANGED calls
    \/ MainSummary /\ UNCHANGED calls
    \/ MainSaveSummary /\ UNCHANGED calls
    \/ MainFigures /\ UNCHANGED calls

SpecMain == InitMain /\ [][NextMain]_vars

\* the steps of main in order
MainSteps ==
    << "load_csv", "run_all_checks", "save_markdown", "preprocess_data",
       "generate_kpi_summary", "save_markdown", "generate_all_figures" >>

\* C20: main does not abort on FAIL results: once the file is loaded every
\* step returns, so that validation, the saving of the report, preprocessing,
\* the summary and the figures all run, whatever the statuses; main exits
\* with status 1, before any validation, only when the file is not found.
C20_PipelineRunsThrough ==
    /\ FileExists(df) =>
           ret = NoCall \/ (ret.fn \in Range(MainSteps) /\ ret.raised = "none")
    /\ ret.fn = "sys.exit" => ~FileExists(df) /\ ret.status = 1 /\ results = <<>>
    /\ ~FileExists(df) => ret = NoCall \/ ret.fn = "sys.exit"

\* the part of C20 that holds: the steps are taken in the order of MainSteps,
\* each after the one before it has returned, and whether a step is taken
\* does not depend on the statuses in the result list
C20_StepOrder ==
    [][\/ \E k \in DOMAIN MainSteps :
             /\ ret'.fn = MainSteps[k]
             /\ IF k = 1 THEN ret = NoCall
                ELSE ret.fn = MainSteps[k - 1] /\ ret.raised = "none"
       \/ (ret'.fn = "sys.exit" /\ ret = NoCall /\ ~FileExists(df))
    ]_vars

\* main has reached the figures although a check has failed
C20_CompletesDespiteFail ==
    /\ ret.fn = "generate_all_figures"
    /\ ret.raised = "none"
    /\ \E i \in DOMAIN results : results[i].status = "FAIL"
    /\ \E i \in DOMAIN results : results[i].status = "WARN"

\* the file was not found and main has exited with status 1
C20_ExitReached == ret.fn = "sys.exit" /\ ret.status = 1 /\ results = <<>>

(***************************************************************************)
(* The aggregation by Type against the overall aggregation, on tables with *)
(* every required column whose rows vary the Type and the target, the      *)
(* target also beyond 0 and 1 and undefined.                               *)
(***************************************************************************)
ConserveRows ==
    {WithVal(FlagRow(t, {}), "Type", ty) : t \in {0, 1}, ty \in {"L", "M", "X"}}
    \cup {WithVal(NominalRow, TARGET_COL, 2),
          WithNull(WithVal(NominalRow, "Type", "M"), TARGET_COL),
          WithNull(FlagRow(1, {}), "Type")}

ConserveDatasets ==
    {[cols |-> AllColumns, rows |-> rs] :
        rs \in SeqsUpTo(ConserveRows, MaxRowsKpi)}

InitConserve ==
    /\ df \in ConserveDatasets
    /\ results = <<>>
    /\ ret = NoCall
    /\ calls = 0

NextConserve ==
    \/ ComputeFailureRateByType /\ UNCHANGED calls
    \/ ComputeOverallFailureRate /\ UNCHANGED calls

SpecConserve == InitConserve /\ [][NextConserve]_vars

RECURSIVE SumFailureCounts(_, _)
SumFailureCounts(t, k) ==
    IF k = 0 THEN 0 ELSE SumFailureCounts(t, k - 1) + t[k].failure_count

TypeNeverNull == \A i \in RowIds(df) : ~IsNull(df, i, "Type")

\* every defined cell of the target is 0 or 1
BinaryTarget ==
    \A i \in RowIds(df) :
        ~IsNull(df, i, TARGET_COL) => Cell(df, i, TARGET_COL) \in {0, 1}

InUnitInterval(x) == FracGe(x, ZERO) /\ FracLe(x, Frac(1, 1))

\* C21: on a dataset whose Type is never null the counts of the groups of
\* compute_failure_rate_by_type add up to total_records and their
\* failure_counts to failure_count of compute_overall_failure_rate; with a
\* binary target every failure_rate of a group and the overall failure_rate
\* lie in [0, 1].
C21_ByTypeConservesOverall ==
    LET overall == compute_overall_failure_rate(df).value
    IN  /\ (IsByTypeCall /\ TypeNeverNull) =>
               /\ SumCounts(ret.value, Len(ret.value)) = overall.total_records
               /\ SumCounts(ret.value, Len(ret.value)) = Len(df.rows)
               /\ SumFailureCounts(ret.value, Len(ret.value)) = overall.failure_count
        /\ (IsByTypeCall /\ BinaryTarget) =>
               \A k \in DOMAIN ret.value : InUnitInterval(ret.value[k].failure_rate)
        /\ (ret.fn = "compute_overall_failure_rate" /\ BinaryTarget) =>
               /\ ret.raised = "none"
               /\ ret.value = overall
               /\ InUnitInterval(ret.value.failure_rate)

\* three rows of a valid and of an unknown Type, none null, one of them
\* failed: two groups whose counts add up to 3 and whose failures to 1
C21_Witness ==
    /\ IsByTypeCall
    /\ TypeNeverNull
    /\ BinaryTarget
    /\ Len(df.rows) = MaxRowsKpi
    /\ Len(ret.value) = 2
    /\ \E k \in DOMAIN ret.value : ret.value[k].Type \notin VALID_TYPES
    /\ SumFailureCounts(ret.value, Len(ret.value)) = 1
    /\ \E k \in DOMAIN ret.value :
           ret.value[k].failure_rate.num > 0
           /\ ret.value[k].failure_rate.num < ret.value[k].failure_rate.den

\* a row without a Type belongs to no group: the counts add up to less
C21_NullTypeLosesRows ==
    /\ IsByTypeCall
    /\ ~TypeNeverNull
    /\ SumCounts(ret.value, Len(ret.value)) < Len(df.rows)

\* with a target of 2 the rate of a group exceeds 1
C21_NonBinaryExceedsOne ==
    /\ IsByTypeCall
    /\ ~BinaryTarget
    /\ \E k \in DOMAIN ret.value : ~InUnitInterval(ret.value[k].failure_rate)

====
